---- MODULE Spec2Model ----
(***************************************************************************)
(* A model of pybtex/style/formatting/__init__.py (BaseStyle): the         *)
(* construction of a formatting style from three plugin identifiers, the   *)
(* lazy format_entries generator, the per-type dispatch of format_entry    *)
(* and the eager format_bibliography.                                      *)
(*                                                                         *)
(* The host library (plugin registry, bibliography container, sorting and  *)
(* label plugins, FormattedBibliography) is not part of the file; it is    *)
(* modelled by what the file relies on, and its free choices (how many     *)
(* labels a label plugin returns) are inputs of the actions.               *)
(***************************************************************************)
EXTENDS Naturals, Sequences, FiniteSets, TLC

VARIABLES
    style,      \* the constructed style object, or None
    ctor,       \* outcome of the last constructor call
    op,         \* the call the client made last, with its arguments
    ret,        \* how that call ended: a return value or a raised error
    trace,      \* collaborators and attributes invoked by that call, in order
    gen,        \* the generator object returned by format_entries
    yielded     \* the FormattedEntries the client received from gen

vars == <<style, ctor, op, ret, trace, gen, yielded>>

\* Python's None: as an identifier or field value, and in place of an object.
None == "None"
Nothing == [none |-> TRUE]

\* ------------------------------------------------------------------ bounds
\* Largest number of entries in a bibliography container / an entries list.
MaxEntries == 3
\* Longest explicit citation list.
MaxCites == 2
\* How many labels more than entries a label plugin may return.
MaxExtraLabels == 1

\* ------------------------------------------------------------- small helpers
Min(a, b) == IF a <= b THEN a ELSE b

Range(s) == {s[i] : i \in 1..Len(s)}

SeqsUpTo(S, n) == UNION {[1..k -> S] : k \in 0..n}

Distinct(s) == \A i, j \in 1..Len(s) : i # j => s[i] # s[j]

KeysOf(es) == [i \in 1..Len(es) |-> es[i].key]

\* -------------------------------------------------------- the plugin registry
Groups == <<"pybtex.style.names", "pybtex.style.labels", "pybtex.style.sorting">>

\* Names registered per plugin group, and the group's default plugin.
Registered(plugin_group) ==
    CASE plugin_group = "pybtex.style.names"   -> {"plain"}
      [] plugin_group = "pybtex.style.labels"  -> {"number"}
      [] plugin_group = "pybtex.style.sorting" -> {"none", "author_year_title"}

DefaultPlugin(plugin_group) ==
    CASE plugin_group = "pybtex.style.names"   -> "plain"
      [] plugin_group = "pybtex.style.labels"  -> "number"
      [] plugin_group = "pybtex.style.sorting" -> "none"

\* Python's truth value of an identifier: None and "" are false.
Truthy(x) == x \notin {None, ""}

\* find_plugin(group, name): the class registered under name, the group's
\* default when no name is given, PluginNotFound when name is not registered.
find_plugin(plugin_group, name) ==
    IF Truthy(name)
    THEN IF name \in Registered(plugin_group)
         THEN [ok |-> TRUE, plugin |-> name, error |-> None]
         ELSE [ok |-> FALSE, plugin |-> None, error |-> "PluginNotFound"]
    ELSE [ok |-> TRUE, plugin |-> DefaultPlugin(plugin_group), error |-> None]

\* Python's `x or d` on identifiers.
Or(x, d) == IF Truthy(x) THEN x ELSE d

\* ------------------------------------------------------------- style classes
\* BaseStyle itself (lines 19-21: all defaults None, no templates) and two
\* subclasses: one whose defaults are registered, one whose default label
\* style is not.
BaseStyle ==
    [name |-> "BaseStyle",
     default_name_style |-> None,
     default_label_style |-> None,
     default_sorting_style |-> None,
     attrs |-> {}]

Style ==
    [name |-> "Style",
     default_name_style |-> "plain",
     default_label_style |-> "number",
     default_sorting_style |-> "author_year_title",
     attrs |-> {"get_article_template", "format_article",
                "get_book_template", "format_misc"}]

CustomStyle ==
    [name |-> "CustomStyle",
     default_name_style |-> "plain",
     default_label_style |-> "custom",
     default_sorting_style |-> "author_year_title",
     attrs |-> {"get_article_template", "format_article",
                "get_book_template", "format_misc"}]

Classes == {BaseStyle, Style, CustomStyle}

\* Identifiers a caller may pass for each group.
StyleIds(plugin_group) ==
    CASE plugin_group = "pybtex.style.names"   -> {None, "", "plain", "doesnotexist"}
      [] plugin_group = "pybtex.style.labels"  -> {None, "", "number", "doesnotexist"}
      [] plugin_group = "pybtex.style.sorting" -> {None, "", "author_year_title", "doesnotexist"}

\* ---------------------------------------------------------------- __init__
\* A faulty variant: the label style is resolved before the name style.
init_label_first(cls, label_style, name_style, sorting_style, abbreviate_names, min_crossrefs) ==
    LET l == find_plugin(Groups[2], Or(label_style, cls.default_label_style))
        n == find_plugin(Groups[1], Or(name_style, cls.default_name_style))
        s == find_plugin(Groups[3], Or(sorting_style, cls.default_sorting_style))
    IN  IF ~l.ok THEN [ok |-> FALSE, error |-> l.error, lookups |-> <<Groups[2]>>, self |-> Nothing]
        ELSE IF ~n.ok THEN [ok |-> FALSE, error |-> n.error, lookups |-> <<Groups[2], Groups[1]>>, self |-> Nothing]
        ELSE IF ~s.ok THEN [ok |-> FALSE, error |-> s.error, lookups |-> <<Groups[2], Groups[1], Groups[3]>>, self |-> Nothing]
        ELSE [ok |-> TRUE, error |-> None, lookups |-> <<Groups[2], Groups[1], Groups[3]>>,
              self |-> [cls |-> cls, name_style |-> n.plugin, label_style |-> l.plugin,
                        sorting_style |-> s.plugin, abbreviate_names |-> abbreviate_names,
                        min_crossrefs |-> min_crossrefs]]

\* Lines 24-26 look the three plugins up one after the other; the first
\* lookup that raises ends the constructor. Lines 27-31 store the rest.
init(cls, label_style, name_style, sorting_style, abbreviate_names, min_crossrefs) ==
    LET n == find_plugin(Groups[1], Or(name_style, cls.default_name_style))
        l == find_plugin(Groups[2], Or(label_style, cls.default_label_style))
        s == find_plugin(Groups[3], Or(sorting_style, cls.default_sorting_style))
    IN  IF ~n.ok THEN [ok |-> FALSE, error |-> n.error, lookups |-> <<Groups[1]>>, self |-> Nothing]
        ELSE IF ~l.ok THEN [ok |-> FALSE, error |-> l.error, lookups |-> <<Groups[1], Groups[2]>>, self |-> Nothing]
        ELSE IF ~s.ok THEN [ok |-> FALSE, error |-> s.error, lookups |-> <<Groups[1], Groups[2], Groups[3]>>, self |-> Nothing]
        ELSE [ok |-> TRUE, error |-> None, lookups |-> <<Groups[1], Groups[2], Groups[3]>>,
              self |-> [cls |-> cls, name_style |-> n.plugin, label_style |-> l.plugin,
                        sorting_style |-> s.plugin, abbreviate_names |-> abbreviate_names,
                        min_crossrefs |-> min_crossrefs]]

\* ------------------------------------------------- entries and the container
\* The bibliographic records the inputs are built from. crossref names the
\* key of another record or is None; year is what the author_year_title
\* sorting plugin orders by.
Library ==
    {[key |-> "a", type |-> "article", crossref |-> "c",  year |-> 2003],
     [key |-> "b", type |-> "book",    crossref |-> "c",  year |-> 2001],
     [key |-> "c", type |-> "misc",    crossref |-> None, year |-> 2002],
     [key |-> "x", type |-> "bogus",   crossref |-> None, year |-> 2002]}

Keys == {e.key : e \in Library}

\* Entry types format_entry is called with directly: with both a template
\* factory and a format method ("article"), with one of them ("book",
\* "misc"), with neither ("bogus"), and three whose format_<type> name is a
\* method BaseStyle itself defines.
Types == {"article", "book", "misc", "bogus", "entries", "entry", "bibliography"}

EntryLists == {es \in SeqsUpTo(Library, MaxEntries) : Distinct(KeysOf(es))}

\* A bibliography container: an ordered mapping from key to entry, and a
\* preamble. Every crossref of a container names an entry of the container.
BibliographyData(es) == [entries |-> es, preamble |-> "preamble"]

Containers ==
    {BibliographyData(es) : es \in
        {l \in EntryLists :
            \A i \in 1..Len(l) : l[i].crossref = None \/ l[i].crossref \in Range(KeysOf(l))}}

HasKey(bib_data, key) == key \in Range(KeysOf(bib_data.entries))

\* bib_data.entries[key], for a key of the container.
Lookup(bib_data, key) ==
    LET i == CHOOSE j \in 1..Len(bib_data.entries) : bib_data.entries[j].key = key
    IN  bib_data.entries[i]

\* The citations argument when given: a list object holding keys, repeated
\* and unknown keys included. (An omitted argument is Nothing.)
CitationLists == {[keys |-> ks] : ks \in SeqsUpTo(Keys, MaxCites)}

\* The citations in order, each kept at its first occurrence.
RECURSIVE expand_citations(_, _)
expand_citations(citations, citation_set) ==
    IF citations = <<>> THEN <<>>
    ELSE IF Head(citations) \in citation_set
         THEN expand_citations(Tail(citations), citation_set)
         ELSE <<Head(citations)>>
                \o expand_citations(Tail(citations), citation_set \cup {Head(citations)})

\* The keys cross-referenced by at least min_crossrefs of the citations and
\* not cited themselves, in the order their count reaches the threshold.
RECURSIVE crossreferenced_citations(_, _, _, _, _)
crossreferenced_citations(bib_data, citations, min_crossrefs, crossref_count, citation_set) ==
    IF citations = <<>> THEN <<>>
    ELSE LET citation == Head(citations)
             rest == Tail(citations)
         IN  IF ~HasKey(bib_data, citation) \/ Lookup(bib_data, citation).crossref = None
             THEN crossreferenced_citations(bib_data, rest, min_crossrefs, crossref_count, citation_set)
             ELSE LET crossref == Lookup(bib_data, citation).crossref
                      count == [crossref_count EXCEPT ![crossref] = @ + 1]
                  IN  IF count[crossref] >= min_crossrefs /\ crossref \notin citation_set
                      THEN <<crossref>>
                             \o crossreferenced_citations(bib_data, rest, min_crossrefs, count,
                                                          citation_set \cup {crossref})
                      ELSE crossreferenced_citations(bib_data, rest, min_crossrefs, count,
                                                     citation_set)

\* bib_data.add_extra_citations(citations, min_crossrefs).
add_extra_citations(bib_data, citations, min_crossrefs) ==
    LET expanded == expand_citations(citations, {})
    IN  expanded \o crossreferenced_citations(bib_data, expanded, min_crossrefs,
                                              [k \in Keys |-> 0], Range(expanded))

\* ------------------------------------------------ sorting and label plugins
RECURSIVE insert_by_year(_, _)
insert_by_year(sorted, e) ==
    IF sorted = <<>> THEN <<e>>
    ELSE IF Head(sorted).year <= e.year
         THEN <<Head(sorted)>> \o insert_by_year(Tail(sorted), e)
         ELSE <<e>> \o sorted

RECURSIVE sorted_by_year(_, _)
sorted_by_year(entries, acc) ==
    IF entries = <<>> THEN acc
    ELSE sorted_by_year(Tail(entries), insert_by_year(acc, Head(entries)))

\* self.sort(entries): the "none" plugin returns the entries as given, the
\* "author_year_title" plugin a stable sort.
sort(self, entries) ==
    IF self.sorting_style = "none" THEN entries ELSE sorted_by_year(entries, <<>>)

\* self.format_labels(sorted_entries): the labels the label plugin returns,
\* count of them. The i-th label is i; a conforming plugin returns one per
\* entry, and nothing in the file makes a plugin conform.
format_labels(sorted_entries, count) == [i \in 1..count |-> i]

LabelCounts(entries) == 0..(Len(entries) + MaxExtraLabels)

\* ------------------------------------------------------------ format_entry
\* Attributes every BaseStyle instance has: its methods and what __init__
\* stores (lines 24-31).
BaseAttrs ==
    {"format_entries", "format_entry", "format_bibliography",
     "name_style", "label_style", "sorting_style",
     "format_name", "format_labels", "sort", "abbreviate_names", "min_crossrefs"}

\* Whether getattr(self, name) finds an attribute.
hasattr(self, name) == name \in BaseAttrs \cup self.cls.attrs

\* One invocation of a collaborator or of an attribute of the style.
Event(call, arg) == [call |-> call, arg |-> arg]

FormattedEntry(key, text, label) == [key |-> key, text |-> text, label |-> label]

\* The text a template or format method renders: which attribute rendered
\* it, from which context.
Rendered(attr, context) == [by |-> attr, context |-> context]

\* format_method(context) for the attribute named "format_" + entry.type.
\* A method of the class renders the text. BaseStyle's own format_entries,
\* called with the context as its entries, returns a generator object
\* without running anything; format_entry lacks its second argument;
\* format_bibliography reads context.entries, which a dict does not have.
call_format_method(fname, context) ==
    CASE fname = "format_entries"      -> [ok |-> TRUE, text |-> Rendered(fname, context), error |-> None]
      [] fname = "format_entry"        -> [ok |-> FALSE, text |-> Nothing, error |-> "TypeError"]
      [] fname = "format_bibliography" -> [ok |-> FALSE, text |-> Nothing, error |-> "AttributeError"]
      [] OTHER                         -> [ok |-> TRUE, text |-> Rendered(fname, context), error |-> None]

\* A faulty variant: the format method is looked up first, the template factory second.
format_entry_method_first(self, label, entry, bib_data) ==
    LET context == [entry |-> entry, style |-> self, bib_data |-> bib_data]
        tname == "get_" \o entry.type \o "_template"
        fname == "format_" \o entry.type
    IN  IF hasattr(self, fname)
        THEN LET r == call_format_method(fname, context)
             IN  [ok |-> r.ok, error |-> r.error, calls |-> <<Event(fname, entry.key)>>,
                  value |-> IF r.ok THEN FormattedEntry(entry.key, r.text, label) ELSE Nothing]
        ELSE IF hasattr(self, tname)
        THEN [ok |-> TRUE, error |-> None, calls |-> <<Event(tname, entry.key)>>,
              value |-> FormattedEntry(entry.key, Rendered(tname, context), label)]
        ELSE [ok |-> FALSE, error |-> "AttributeError", calls |-> <<>>, value |-> Nothing]

\* A faulty variant: an entry of a type with no template gets an empty text.
format_entry_lenient(self, label, entry, bib_data) ==
    LET context == [entry |-> entry, style |-> self, bib_data |-> bib_data]
        tname == "get_" \o entry.type \o "_template"
        fname == "format_" \o entry.type
    IN  IF hasattr(self, tname)
        THEN [ok |-> TRUE, error |-> None, calls |-> <<Event(tname, entry.key)>>,
              value |-> FormattedEntry(entry.key, Rendered(tname, context), label)]
        ELSE IF ~hasattr(self, fname)
        THEN [ok |-> TRUE, error |-> None, calls |-> <<>>,
              value |-> FormattedEntry(entry.key, Rendered(None, context), label)]
        ELSE LET r == call_format_method(fname, context)
             IN  [ok |-> r.ok, error |-> r.error, calls |-> <<Event(fname, entry.key)>>,
                  value |-> IF r.ok THEN FormattedEntry(entry.key, r.text, label) ELSE Nothing]

\* Lines 39-52. The result says whether the call returned or raised, and
\* lists the attributes of the style it called.
format_entry(self, label, entry, bib_data) ==
    LET context == [entry |-> entry, style |-> self, bib_data |-> bib_data]
        tname == "get_" \o entry.type \o "_template"
        fname == "format_" \o entry.type
    IN  IF hasattr(self, tname)
        THEN \* line 51: get_template(entry).format_data(context)
             [ok |-> TRUE, error |-> None, calls |-> <<Event(tname, entry.key)>>,
              value |-> FormattedEntry(entry.key, Rendered(tname, context), label)]
        ELSE IF ~hasattr(self, fname)
        THEN \* line 48: the second getattr raises
             [ok |-> FALSE, error |-> "AttributeError", calls |-> <<>>, value |-> Nothing]
        ELSE \* line 49
             LET r == call_format_method(fname, context)
             IN  [ok |-> r.ok, error |-> r.error, calls |-> <<Event(fname, entry.key)>>,
                  value |-> IF r.ok THEN FormattedEntry(entry.key, r.text, label) ELSE Nothing]

\* ---------------------------------------------------------- format_entries
\* A faulty variant: the labels are paired from the last to the first.
zip_reversed(labels, sorted_entries) ==
    [i \in 1..Min(Len(labels), Len(sorted_entries)) |->
        <<labels[Len(labels) + 1 - i], sorted_entries[i]>>]

\* A faulty variant: every entry is paired, with the label 0 where one is missing.
zip_longest(labels, sorted_entries) ==
    [i \in 1..Len(sorted_entries) |->
        <<IF i <= Len(labels) THEN labels[i] ELSE 0, sorted_entries[i]>>]

\* Line 36, zip(labels, sorted_entries): pairs by position, as many as the
\* shorter of the two has.
zip(labels, sorted_entries) ==
    [i \in 1..Min(Len(labels), Len(sorted_entries)) |-> <<labels[i], sorted_entries[i]>>]

\* Line 33: calling format_entries runs none of its body; it returns a
\* generator object holding the arguments. sorted_entries and labels are
\* the frame's locals, i counts the pairs the zip iterator has handed out.
format_entries(entries, bib_data) ==
    [state |-> "created", entries |-> entries, bib_data |-> bib_data,
     sorted_entries |-> <<>>, labels |-> <<>>, i |-> 0]

Out(kind, value, error) == [kind |-> kind, value |-> value, error |-> error]

\* The generator body before its loop: lines 34-35, run by the first next().
started(self, g, count) ==
    IF g.state = "created"
    THEN LET sorted_entries == sort(self, g.entries)
         IN  [g EXCEPT !.state = "suspended", !.sorted_entries = sorted_entries,
                       !.labels = format_labels(sorted_entries, count)]
    ELSE g

\* A faulty variant: an entry that cannot be formatted is skipped.
RECURSIVE gen_next_skipping(_, _, _)
gen_next_skipping(self, g, count) ==
    LET s == started(self, g, count)
        pairs == zip(s.labels, s.sorted_entries)
        events == IF g.state = "created"
                  THEN <<Event("sort", KeysOf(g.entries)),
                         Event("format_labels", KeysOf(s.sorted_entries))>>
                  ELSE <<>>
    IN  IF g.state \in {"exhausted", "failed"}
        THEN [gen |-> g, out |-> Out("stop", Nothing, "StopIteration"), events |-> <<>>]
        ELSE IF s.i >= Len(pairs)
        THEN [gen |-> [s EXCEPT !.state = "exhausted"],
              out |-> Out("stop", Nothing, "StopIteration"), events |-> events]
        ELSE LET r == format_entry(self, pairs[s.i + 1][1], pairs[s.i + 1][2], s.bib_data)
             IN  IF r.ok
                 THEN [gen |-> [s EXCEPT !.i = @ + 1],
                       out |-> Out("yield", r.value, None), events |-> events \o r.calls]
                 ELSE LET more == gen_next_skipping(self, [s EXCEPT !.i = @ + 1], count)
                      IN  [more EXCEPT !.events = events \o r.calls \o @]

\* next(generator): lines 34-37 run from where the generator stands to its
\* next yield, to its end (StopIteration) or to an error. Either end closes
\* the generator: "exhausted" and "failed" differ only in how it was closed,
\* and every later next() raises StopIteration.
\* count is the number of labels the label plugin returns at line 35.
gen_next(self, g, count) ==
    LET s == started(self, g, count)
        pairs == zip(s.labels, s.sorted_entries)
        events == IF g.state = "created"
                  THEN <<Event("sort", KeysOf(g.entries)),
                         Event("format_labels", KeysOf(s.sorted_entries))>>
                  ELSE <<>>
    IN  IF g.state \in {"exhausted", "failed"}
        THEN [gen |-> g, out |-> Out("stop", Nothing, "StopIteration"), events |-> <<>>]
        ELSE IF s.i >= Len(pairs)
        THEN [gen |-> [s EXCEPT !.state = "exhausted"],
              out |-> Out("stop", Nothing, "StopIteration"), events |-> events]
        ELSE LET r == format_entry(self, pairs[s.i + 1][1], pairs[s.i + 1][2], s.bib_data)
             IN  IF r.ok
                 THEN [gen |-> [s EXCEPT !.i = @ + 1],
                       out |-> Out("yield", r.value, None), events |-> events \o r.calls]
                 ELSE [gen |-> [s EXCEPT !.state = "failed"],
                       out |-> Out("raise", Nothing, r.error), events |-> events \o r.calls]

\* list(generator): every element up to the end or to the first error.
RECURSIVE list(_, _, _, _)
list(self, g, count, acc) ==
    LET r == gen_next(self, g, count)
    IN  IF r.out.kind = "yield"
        THEN list(self, r.gen, count,
                  [acc EXCEPT !.items = Append(@, r.out.value), !.events = @ \o r.events])
        ELSE [items |-> acc.items, events |-> acc.events \o r.events, out |-> r.out]

\* FormattedBibliography(entries, style, preamble) stores list(entries).
FormattedBibliography(items, self, preamble) ==
    [entries |-> items, style |-> self, preamble |-> preamble]

\* ------------------------------------------------------ format_bibliography
\* A faulty variant: an omitted citation list means no citations.
default_citations_empty(bib_data, citations) ==
    IF citations = Nothing THEN <<>> ELSE citations.keys

\* Lines 63-64: an omitted citation list is the container's keys, in the
\* container's order.
default_citations(bib_data, citations) ==
    IF citations = Nothing THEN KeysOf(bib_data.entries) ELSE citations.keys

\* A faulty variant: a key the container does not have is skipped.
RECURSIVE resolve_entries_skipping(_, _)
resolve_entries_skipping(bib_data, citations) ==
    IF citations = <<>> THEN [ok |-> TRUE, entries |-> <<>>, error |-> None]
    ELSE LET rest == resolve_entries_skipping(bib_data, Tail(citations))
         IN  IF HasKey(bib_data, Head(citations))
             THEN [rest EXCEPT !.entries = <<Lookup(bib_data, Head(citations))>> \o @]
             ELSE rest

\* Line 66: [bib_data.entries[key] for key in citations]; the first key
\* the container does not have raises KeyError.
resolve_entries(bib_data, citations) ==
    IF \A i \in 1..Len(citations) : HasKey(bib_data, citations[i])
    THEN [ok |-> TRUE, error |-> None,
          entries |-> [i \in 1..Len(citations) |-> Lookup(bib_data, citations[i])]]
    ELSE [ok |-> FALSE, error |-> "KeyError", entries |-> <<>>]

\* A faulty variant: the citation list is not extended by crossref inclusion.
format_bibliography_no_crossrefs(self, bib_data, citations, count) ==
    LET given == default_citations(bib_data, citations)
        extending == Event("add_extra_citations", given)
        resolved == resolve_entries(bib_data, given)
    IN  IF ~resolved.ok
        THEN [out |-> Out("raise", Nothing, resolved.error), events |-> <<extending>>]
        ELSE LET formatted_entries == format_entries(resolved.entries, Nothing)
                 l == list(self, formatted_entries, count, [items |-> <<>>, events |-> <<>>])
             IN  IF l.out.kind = "raise"
                 THEN [out |-> l.out, events |-> <<extending>> \o l.events]
                 ELSE [out |-> Out("return",
                                   FormattedBibliography(l.items, self, bib_data.preamble),
                                   None),
                       events |-> <<extending>> \o l.events]

\* Lines 54-69. count is the number of labels the label plugin returns
\* when FormattedBibliography consumes the generator.
format_bibliography(self, bib_data, citations, count) ==
    LET given == default_citations(bib_data, citations)
        extended == add_extra_citations(bib_data, given, self.min_crossrefs)
        extending == Event("add_extra_citations", given)
        resolved == resolve_entries(bib_data, extended)
    IN  IF ~resolved.ok
        THEN [out |-> Out("raise", Nothing, resolved.error), events |-> <<extending>>]
        ELSE LET \* line 67: format_entries(entries), bib_data is not passed on
                 formatted_entries == format_entries(resolved.entries, Nothing)
                 \* line 68
                 l == list(self, formatted_entries, count, [items |-> <<>>, events |-> <<>>])
             IN  IF l.out.kind = "raise"
                 THEN [out |-> l.out, events |-> <<extending>> \o l.events]
                 ELSE [out |-> Out("return",
                                   FormattedBibliography(l.items, self, bib_data.preamble),
                                   None),
                       events |-> <<extending>> \o l.events]

\* ------------------------------------------------------------------ actions
NoCall == [name |-> None]
NoReturn == Out(None, Nothing, None)
NoGenerator == [state |-> None]

Init ==
    /\ style = Nothing
    /\ ctor = [called |-> FALSE]
    /\ op = NoCall
    /\ ret = NoReturn
    /\ trace = <<>>
    /\ gen = NoGenerator
    /\ yielded = <<>>

\* BaseStyle.__init__ for a class of Classes, called by a client that holds
\* no results of a call. A constructor that raises leaves no object; the
\* style the client held before is dropped either way.
Construct(cls, label_style, name_style, sorting_style, abbreviate_names, min_crossrefs) ==
    LET r == init(cls, label_style, name_style, sorting_style, abbreviate_names, min_crossrefs)
    IN  /\ op = NoCall
        /\ style' = r.self
        /\ ctor' = [called |-> TRUE, cls |-> cls, label_style |-> label_style,
                    name_style |-> name_style, sorting_style |-> sorting_style,
                    error |-> r.error, lookups |-> r.lookups]
        /\ UNCHANGED <<op, ret, trace, gen, yielded>>

\* line 23: min_crossrefs=2
DefaultMinCrossrefs == 2

MinCrossrefs == {1, DefaultMinCrossrefs}

\* The constructor called with identifiers of every kind.
ConstructWithIds ==
    \E cls \in Classes :
    \E label_style \in StyleIds(Groups[2]), name_style \in StyleIds(Groups[1]),
       sorting_style \in StyleIds(Groups[3]) :
        Construct(cls, label_style, name_style, sorting_style, FALSE, DefaultMinCrossrefs)

\* The constructor called with the class defaults or the "none" sorting.
ConstructRegistered ==
    \E cls \in Classes, sorting_style \in {None, "none"}, min_crossrefs \in MinCrossrefs :
        Construct(cls, None, None, sorting_style, FALSE, min_crossrefs)

\* The entries format_entry is called with directly.
DirectEntries ==
    Library \cup {[key |-> "t", type |-> t, crossref |-> None, year |-> 2000] : t \in Types}

CallFormatEntry ==
    /\ style # Nothing
    /\ op = NoCall
    /\ \E label \in {1, 2}, entry \in DirectEntries :
       \E bib_data \in {Nothing, BibliographyData(<<entry>>)} :
        LET r == format_entry(style, label, entry, bib_data)
        IN  /\ op' = [name |-> "format_entry", label |-> label, entry |-> entry,
                      bib_data |-> bib_data]
            /\ ret' = IF r.ok THEN Out("return", r.value, None)
                              ELSE Out("raise", Nothing, r.error)
            /\ trace' = r.calls
    /\ gen' = NoGenerator
    /\ yielded' = <<>>
    /\ UNCHANGED <<style, ctor>>

CallFormatEntries ==
    /\ style # Nothing
    /\ op = NoCall
    /\ \E entries \in EntryLists :
       \E bib_data \in {Nothing, BibliographyData(entries)} :
        /\ op' = [name |-> "format_entries", entries |-> entries, bib_data |-> bib_data]
        /\ gen' = format_entries(entries, bib_data)
    /\ ret' = NoReturn
    /\ trace' = <<>>
    /\ yielded' = <<>>
    /\ UNCHANGED <<style, ctor>>

\* The client asks the generator for its next element.
GenNext ==
    /\ style # Nothing
    /\ gen.state # None
    /\ \E count \in IF gen.state = "created" THEN LabelCounts(gen.entries) ELSE {0} :
        LET r == gen_next(style, gen, count)
        IN  /\ gen' = r.gen
            /\ ret' = r.out
            /\ trace' = trace \o r.events
            /\ yielded' = IF r.out.kind = "yield" THEN Append(yielded, r.out.value)
                                                  ELSE yielded
    /\ UNCHANGED <<style, ctor, op>>

FormatBibliography(bib_data, citations) ==
    \E count \in LabelCounts(add_extra_citations(bib_data,
                                 default_citations(bib_data, citations), style.min_crossrefs)) :
        LET r == format_bibliography(style, bib_data, citations, count)
        IN  /\ op' = [name |-> "format_bibliography", bib_data |-> bib_data,
                      citations |-> citations, count |-> count]
            /\ ret' = r.out
            /\ trace' = r.events
            /\ gen' = NoGenerator
            /\ yielded' = <<>>
            /\ UNCHANGED <<style, ctor>>

\* format_bibliography(bib_data, citations)
CallFormatBibliography ==
    /\ style # Nothing
    /\ op = NoCall
    /\ \E bib_data \in Containers, citations \in CitationLists :
        FormatBibliography(bib_data, citations)

\* format_bibliography(bib_data)
CallFormatBibliographyAll ==
    /\ style # Nothing
    /\ op = NoCall
    /\ \E bib_data \in Containers : FormatBibliography(bib_data, Nothing)

\* The client drops what its last call returned; the style is kept.
Discard ==
    /\ op # NoCall
    /\ op' = NoCall
    /\ ret' = NoReturn
    /\ trace' = <<>>
    /\ gen' = NoGenerator
    /\ yielded' = <<>>
    /\ UNCHANGED <<style, ctor>>

Next ==
    \/ ConstructRegistered
    \/ CallFormatEntry
    \/ CallFormatEntries
    \/ GenNext
    \/ CallFormatBibliography
    \/ CallFormatBibliographyAll
    \/ Discard

Spec == Init /\ [][Next]_vars

NextInit ==
    \/ ConstructWithIds
    \/ CallFormatEntry
    \/ Discard

SpecInit == Init /\ [][NextInit]_vars

\* --------------------------------------------------------------- properties
\* The last call was format_bibliography / format_entries / format_entry.
IsBibliographyCall == op.name = "format_bibliography"
IsEntriesCall == op.name = "format_entries"
IsEntryCall == op.name = "format_entry"

\* The style has neither get_<type>_template nor format_<type>.
NoTemplate(self, entry) ==
    /\ ~hasattr(self, "get_" \o entry.type \o "_template")
    /\ ~hasattr(self, "format_" \o entry.type)

\* The citation list format_bibliography hands to the crossref extension,
\* and the list the extension returns.
GivenCitations ==
    IF op.citations = Nothing THEN KeysOf(op.bib_data.entries) ELSE op.citations.keys
ExtendedCitations == add_extra_citations(op.bib_data, GivenCitations, style.min_crossrefs)

\* The keys of the FormattedEntries of a returned FormattedBibliography.
OutputKeys == KeysOf(ret.value.entries)

\* The output has one FormattedEntry per key of the extended list, no key
\* twice and no other key.
OnePerExtendedKey ==
    /\ Len(OutputKeys) = Len(ExtendedCitations)
    /\ Distinct(OutputKeys)
    /\ Range(OutputKeys) = Range(ExtendedCitations)

C2_UnsupportedTypeRaises ==
    (IsEntryCall /\ NoTemplate(style, op.entry))
    => (ret.kind = "raise" /\ ret.error = "AttributeError" /\ ret.value = Nothing)

\* format_entry raised on a "bogus" entry for a style that has templates.
C2_Witness ==
    /\ IsEntryCall
    /\ op.entry.type = "bogus"
    /\ style.cls.attrs # {}
    /\ ret.kind = "raise"

\* The effective identifier of the i-th plugin group: the argument, or the
\* class default when the argument is omitted.
EffectiveId(i) ==
    LET arg == <<ctor.name_style, ctor.label_style, ctor.sorting_style>>[i]
        default == <<ctor.cls.default_name_style, ctor.cls.default_label_style,
                     ctor.cls.default_sorting_style>>[i]
    IN  IF arg \in {None, ""} THEN default ELSE arg

\* The groups, in the order name, label, sorting, whose effective
\* identifier names no registered plugin.
Unresolvable ==
    {i \in 1..3 : EffectiveId(i) \notin {None, ""} \cup Registered(Groups[i])}

FirstUnresolvable == CHOOSE i \in Unresolvable : \A j \in Unresolvable : i <= j

\* C3: a constructor call with an unresolvable identifier raises
\* PluginNotFound, after looking up exactly the groups up to the first
\* unresolvable one in the order name, label, sorting; no style object
\* exists then and no formatting call is made on it. Otherwise the style
\* exists.
C3_PluginNotFoundAtConstruction ==
    /\ ctor.called =>
        IF Unresolvable = {}
        THEN style # Nothing /\ ctor.error = None /\ ctor.lookups = Groups
        ELSE /\ style = Nothing
             /\ ctor.error = "PluginNotFound"
             /\ ctor.lookups = SubSeq(Groups, 1, FirstUnresolvable)
    /\ style = Nothing => op = NoCall

\* The name style resolved and the label style did not.
C3_Witness ==
    /\ ctor.called
    /\ ctor.error = "PluginNotFound"
    /\ ctor.lookups = SubSeq(Groups, 1, 2)
    /\ Cardinality(Unresolvable) = 2

\* C4: with as many labels as sorted entries, the i-th FormattedEntry that
\* format_entries yields carries the key of the i-th entry of the order the
\* sorting plugin returned and the i-th label, and a generator that ends
\* without an error has yielded every entry.
C4_PositionalPairing ==
    (/\ IsEntriesCall
     /\ gen.state # "created"
     /\ Len(gen.labels) = Len(gen.sorted_entries))
    => /\ gen.sorted_entries = sort(style, op.entries)
       /\ Len(yielded) <= Len(gen.sorted_entries)
       /\ \A i \in 1..Len(yielded) :
            /\ yielded[i].key = gen.sorted_entries[i].key
            /\ yielded[i].label = gen.labels[i]
       /\ gen.state = "exhausted" => Len(yielded) = Len(gen.sorted_entries)

\* An exhausted generator that yielded three entries in an order other than
\* the one they were given in.
C4_Witness ==
    /\ IsEntriesCall
    /\ gen.state = "exhausted"
    /\ Len(gen.labels) = Len(gen.sorted_entries)
    /\ Len(yielded) = 3
    /\ gen.sorted_entries # op.entries

\* C5: format_entry uses the template factory whenever the style has one
\* for the entry's type, and then never calls format_<type>; it calls
\* format_<type> only when the factory is absent.
C5_TemplatePrecedence ==
    IsEntryCall =>
        LET tname == "get_" \o op.entry.type \o "_template"
            fname == "format_" \o op.entry.type
        IN  /\ hasattr(style, tname) =>
                /\ trace = <<Event(tname, op.entry.key)>>
                /\ ret.kind = "return"
                /\ ret.value.text.by = tname
            /\ \A i \in 1..Len(trace) : trace[i].call = fname => ~hasattr(style, tname)
            /\ (~hasattr(style, tname) /\ hasattr(style, fname)) =>
                trace = <<Event(fname, op.entry.key)>>

\* An entry of a type with both attributes was formatted.
C5_Witness ==
    /\ IsEntryCall
    /\ hasattr(style, "get_" \o op.entry.type \o "_template")
    /\ hasattr(style, "format_" \o op.entry.type)
    /\ ret.kind = "return"

MissingKey ==
    \E i \in 1..Len(ExtendedCitations) : ~HasKey(op.bib_data, ExtendedCitations[i])

\* C7: when a key of the extended citation list is not in the container,
\* format_bibliography raises KeyError and returns nothing, and apart from
\* the crossref extension nothing was invoked: no sorting, no labelling, no
\* template.
C7_MissingKeyRaisesFirst ==
    (IsBibliographyCall /\ MissingKey)
    => /\ ret.kind = "raise"
       /\ ret.error = "KeyError"
       /\ ret.value = Nothing
       /\ trace = <<Event("add_extra_citations", GivenCitations)>>

\* A missing key cited after a key the container has.
C7_Witness ==
    /\ IsBibliographyCall
    /\ MissingKey
    /\ op.citations # Nothing
    /\ Len(op.citations.keys) = 2
    /\ HasKey(op.bib_data, op.citations.keys[1])
    /\ ret.kind = "raise"

\* The positions, among the pairs the generator goes through, of the sorted
\* entries whose type has no template.
PairCount == Min(Len(gen.labels), Len(gen.sorted_entries))
FailingPositions == {i \in 1..PairCount : NoTemplate(style, gen.sorted_entries[i])}
FirstFailing == CHOOSE k \in FailingPositions : \A j \in FailingPositions : k <= j

Calls(name) == {i \in 1..Len(trace) : trace[i].call = name}

\* C8: calling format_entries sorts and labels nothing; the first next()
\* does both, once. When the sorted entry at position k is the first whose
\* type has no template, the entries before k are yielded once each in
\* sorted order, the request for element k raises, and nothing is yielded
\* at k or later, whatever is requested afterwards.
C8_LazyPartialFailure ==
    IsEntriesCall =>
        /\ gen.state = "created" => (trace = <<>> /\ yielded = <<>>)
        /\ gen.state # "created" =>
            /\ Cardinality(Calls("sort")) = 1
            /\ Cardinality(Calls("format_labels")) = 1
            /\ \A i \in 1..Len(yielded) : yielded[i].key = gen.sorted_entries[i].key
            /\ FailingPositions # {} =>
                /\ Len(yielded) < FirstFailing
                /\ ret.kind = "raise" => Len(yielded) = FirstFailing - 1
                /\ gen.state # "exhausted"
                /\ gen.state = "failed" => Len(yielded) = FirstFailing - 1
            /\ FailingPositions = {} => (gen.state # "failed" /\ ret.kind # "raise")

\* Two entries were yielded, the third raised, and the client asked again.
C8_Witness ==
    /\ IsEntriesCall
    /\ gen.state = "failed"
    /\ FailingPositions # {}
    /\ FirstFailing = 3
    /\ Len(yielded) = 2
    /\ ret.kind = "stop"

\* C9 as stated: the context of every entry formatted through
\* format_bibliography carries the entry, the style and the bib_data passed
\* to format_bibliography, and format_entries forwards its bib_data to
\* every format_entry call.
C9_AsStated ==
    /\ (IsBibliographyCall /\ ret.kind = "return") =>
        \A i \in 1..Len(ret.value.entries) :
            LET context == ret.value.entries[i].text.context
            IN  /\ context.entry.key = ret.value.entries[i].key
                /\ context.style = style
                /\ context.bib_data = op.bib_data
    /\ IsEntriesCall =>
        \A i \in 1..Len(yielded) : yielded[i].text.context.bib_data = op.bib_data

====
